---- MODULE Spec2Model ----
(***************************************************************************)
(* RSR (Rockfeller System Restore): the backup / test-restore engine of    *)
(* src/src/app/main.py (BackupWorker, RestoreWorker and the RSRWindow      *)
(* handlers that drive them), and the jobs of the packaged variant         *)
(* src/build/rsr_1.2.1/opt/rsr/app/main.py (WorkerThread and the job       *)
(* closures of on_backup_home and on_restore_test).                        *)
(*                                                                         *)
(* Paths and names are strings; Len, SubSeq and \o act on them as on       *)
(* sequences of characters.  Log lines are kept without their timestamp.   *)
(***************************************************************************)
EXTENDS Integers, Sequences, FiniteSets, TLC

(***************************************************************************)
(* Bounds of the model.                                                    *)
(***************************************************************************)
\* The largest flat directory walked: large enough for two emissions of the
\* every-50-items cadence before the final item.
MaxFlat == 101
\* At most this many of the enumerated files fail when added to the archive,
\* and at most this many members when extracted.
MaxFaulty == 2
\* Workers are composed in one behaviour only over trees and archives of at
\* most this many files; a larger one is the subject of a behaviour's only
\* job.
MaxPaired == 2
\* At most this many workers are created in a behaviour.  A worker that is
\* not the first of the behaviour starts only after jobs over at most
\* MaxPaired files with no failing member and no cancel request, and meets
\* no failing item and no cancel request itself (no code of the window
\* calls cancel()).
MaxJobs == 3

(***************************************************************************)
(* Program constants.                                                      *)
(***************************************************************************)
sep == "/"

\* The cadence of progress emissions inside the item loops.
PROGRESS_EVERY == 50

EXCLUDED_DIRS ==
    << "/proc", "/sys", "/dev", "/run", "/tmp", "/mnt", "/media",
       "/lost+found", "/var/tmp", "/var/run" >>

\* BackupWorker._do_backup: root = "/"
root == "/"

\* The result messages (the source's texts are Russian; named here).
MSG_BACKUP_CANCELLED == "backup cancelled"          \* "Бэкап отменён"
MSG_NOTHING_TO_BACKUP == "no files found to back up" \* "Не найдено файлов для бэкапа."
MSG_BACKUP_ERROR == "backup error"                  \* "Ошибка при создании бэкапа: {e}"
MSG_BACKUP_DONE == "full backup created"            \* "Полный бэкап создан:\n{dest_file}"
MSG_RESTORE_CANCELLED == "restore cancelled"        \* "Восстановление отменено"
MSG_ARCHIVE_EMPTY == "archive is empty"             \* "Архив пустой."
MSG_RESTORE_ERROR == "restore error"                \* "Ошибка при восстановлении: {e}"
MSG_RESTORE_DONE == "test restore finished"         \* "Тестовое восстановление завершено.\nКаталог: ..."

(***************************************************************************)
(* String functions of the Python library, as the code uses them.          *)
(***************************************************************************)
\* str.startswith
startswith(s, p) == Len(s) >= Len(p) /\ SubSeq(s, 1, Len(p)) = p

\* str.endswith
endswith(s, p) == Len(s) >= Len(p) /\ SubSeq(s, Len(s) - Len(p) + 1, Len(s)) = p

\* str.lstrip(chars) for a one-character chars: every leading occurrence goes.
RECURSIVE lstrip(_, _)
lstrip(s, ch) ==
    IF Len(s) > 0 /\ SubSeq(s, 1, 1) = ch
    THEN lstrip(SubSeq(s, 2, Len(s)), ch)
    ELSE s

\* os.path.join(a, b) of posixpath, for two parts.
join(a, b) ==
    IF startswith(b, sep) THEN b
    ELSE IF a = "" \/ endswith(a, sep) THEN a \o b
    ELSE a \o sep \o b

\* os.path.abspath of a path that is already absolute: normpath's removal of
\* trailing separators (the walk's paths hold no "." or ".." component).
RECURSIVE abspath(_)
abspath(p) ==
    IF Len(p) > 1 /\ endswith(p, sep)
    THEN abspath(SubSeq(p, 1, Len(p) - 1))
    ELSE p

\* (mutant) a plain string prefix test, with no separator.
MatchesExcludedPrefix(abs_dirpath, ex) == startswith(abs_dirpath, ex)

\* (mutant) the test without its equality: only what lies beneath a root.
MatchesExcludedNested(abs_dirpath, ex) == startswith(abs_dirpath, ex \o sep)

\* The exclusion test of the walk loop, for one excluded root.
MatchesExcluded(abs_dirpath, ex) ==
    abs_dirpath = ex \/ startswith(abs_dirpath, ex \o sep)

\* for ex in EXCLUDED_DIRS: if ...: clear; break
is_excluded(dirpath) ==
    \E i \in 1..Len(EXCLUDED_DIRS) :
        MatchesExcluded(abspath(dirpath), EXCLUDED_DIRS[i])

\* (mutant) the share still to do instead of the share done.
PercentRemaining(i, total) == ((total - i) * 100) \div total

\* (mutant) the share done, rounded to the nearest percent.
PercentRounded(i, total) == (i * 200 + total) \div (2 * total)

\* int(idx * 100 / total): true division, truncated; idx * 100 / total >= 0.
Percent(i, total) == (i * 100) \div total

\* (mutant) no cadence: every item emits.
EmitsProgressAlways(i, total) == TRUE

\* idx % 50 == 0 or idx == total
EmitsProgress(i, total) == i % PROGRESS_EVERY = 0 \/ i = total

(***************************************************************************)
(* Sequence helpers.                                                       *)
(***************************************************************************)
Range(s) == { s[i] : i \in 1..Len(s) }

\* [join(d, n) for n in names]
JoinAll(d, names) == [i \in 1..Len(names) |-> join(d, names[i])]

(***************************************************************************)
(* The filesystem trees the model walks: each maps a directory to its      *)
(* sub-directory names and its file names, in scandir order, as os.walk    *)
(* sorts them: an entry whose is_dir() holds is a directory name, a        *)
(* symbolic link to a directory included, every other entry a file name.   *)
(***************************************************************************)
\* A directory with the names of its entries that are symbolic links.
LinkDir(ds, fs, ls) == [dirs |-> ds, files |-> fs, links |-> ls]

Dir(ds, fs) == LinkDir(ds, fs, {})

\* Excluded roots, a directory nested in one, and directories that only
\* share a string prefix with one.
TreeMixed ==
    ( "/" :> Dir(<<"home", "tmp", "tmpx", "var">>, <<"a">>) )
    @@ ( "/home" :> Dir(<<>>, <<"b">>) )
    @@ ( "/tmp" :> Dir(<<"sub">>, <<"t">>) )
    @@ ( "/tmp/sub" :> Dir(<<>>, <<"u">>) )
    @@ ( "/tmpx" :> Dir(<<>>, <<"x">>) )
    @@ ( "/var" :> Dir(<<"tmp">>, <<>>) )
    @@ ( "/var/tmp" :> Dir(<<>>, <<"v">>) )

\* The scenario of the specification: {a.txt, sub/b.txt}.
TreeScenario ==
    ( "/" :> Dir(<<"sub">>, <<"a.txt">>) )
    @@ ( "/sub" :> Dir(<<>>, <<"b.txt">>) )

\* Nothing at all.
TreeEmpty == ( "/" :> Dir(<<>>, <<>>) )

\* Files only under excluded roots.
TreeOnlyExcluded ==
    ( "/" :> Dir(<<"proc", "run">>, <<>>) )
    @@ ( "/proc" :> Dir(<<"1">>, <<"p">>) )
    @@ ( "/proc/1" :> Dir(<<>>, <<"q">>) )
    @@ ( "/run" :> Dir(<<>>, <<"r">>) )

\* A symbolic link to a file and a symbolic link to a directory, beside a
\* file and a directory.
TreeLinks ==
    ( "/" :> LinkDir(<<"data", "dlink">>, <<"a", "flink">>, {"dlink", "flink"}) )
    @@ ( "/data" :> Dir(<<>>, <<"d">>) )

\* One directory of n files f1..fn.
TreeFlat(n) == ( "/" :> Dir(<<>>, [i \in 1..n |-> "f" \o ToString(i)]) )

FlatSizes == {1, MaxFlat}

Trees ==
    {TreeMixed, TreeScenario, TreeEmpty, TreeOnlyExcluded, TreeLinks}
    \cup { TreeFlat(n) : n \in FlatSizes }

\* Every file of a tree, by full path.
TreeFiles(t) ==
    UNION { { join(d, t[d].files[i]) : i \in 1..Len(t[d].files) } : d \in DOMAIN t }

\* The bytes of a file.
FileContent(path) == "data:" \o path

\* The files whose add may be made to fail: the first and the last file of
\* each directory that is not under an excluded root.
FaultCandidates(t) ==
    UNION { { join(d, t[d].files[i]) : i \in {1, Len(t[d].files)} \cap 1..Len(t[d].files) }
            : d \in { e \in DOMAIN t : ~is_excluded(e) } }

\* The kinds of per-file failure the add loop tells apart.
FaultKinds == {"perm", "gone", "other"}

(***************************************************************************)
(* Events a worker emits: progress_changed(int), log_message(str),         *)
(* finished(bool, str).                                                    *)
(***************************************************************************)
Progress(p) == [kind |-> "progress", pct |-> p, tag |-> "", item |-> "", ok |-> FALSE]
Log(tag, item) == [kind |-> "log", pct |-> 0, tag |-> tag, item |-> item, ok |-> FALSE]
Finished(ok, msg) == [kind |-> "finished", pct |-> 0, tag |-> msg, item |-> "", ok |-> ok]

\* finished(False, f"<msg>: {e}"): the message ends with the error's text.
Failure(msg, e) == [kind |-> "finished", pct |-> 0, tag |-> msg, item |-> e, ok |-> FALSE]

\* The events of one kind, in emission order.
RECURSIVE OfKind(_, _)
OfKind(evs, k) ==
    IF evs = <<>> THEN <<>>
    ELSE IF Head(evs).kind = k THEN <<Head(evs)>> \o OfKind(Tail(evs), k)
    ELSE OfKind(Tail(evs), k)

\* The percentages emitted, in order.
Percents(evs) == [i \in 1..Len(OfKind(evs, "progress")) |-> OfKind(evs, "progress")[i].pct]

\* The terminal results emitted, in order.
Results(evs) == OfKind(evs, "finished")

(***************************************************************************)
(* Archives on disk.                                                       *)
(***************************************************************************)
\* backup_dir() joined with rsr_full_<timestamp>.tar.gz; the timestamp has
\* the resolution of a second.
DestFile(ts) == "~/RSR_backups/rsr_full_" \o ToString(ts) \o ".tar.gz"

\* test_restore_base_dir() joined with RSR_test_<timestamp>
extract_dir_name == "~/RSR_test_restore/RSR_test_TS"

Member(n, c) == [name |-> n, content |-> c]
Archive(v, ms) == [valid |-> v, members |-> ms]

\* What a completed backup of TreeFlat(n) leaves.
FlatArchive(n) ==
    Archive(TRUE, [i \in 1..n |-> Member("f" \o ToString(i), FileContent("/f" \o ToString(i)))])

\* An archive that RSR did not write: a member with a parent-directory
\* reference and a member with an absolute name, after an ordinary one.
ForeignArchive ==
    Archive(TRUE, << Member("ok.txt", "x"), Member("../escape", "y"), Member("/abs/z", "z") >>)

\* Archives found in the backup folder before any job: an archive with no
\* member, a file that is no archive, an archive from elsewhere, and earlier
\* backups of flat trees.
StockArchives ==
    ( "~/RSR_backups/empty.tar.gz" :> Archive(TRUE, <<>>) )
    @@ ( "~/RSR_backups/broken.tar.gz" :> Archive(FALSE, <<>>) )
    @@ ( "~/RSR_backups/foreign.tar.gz" :> ForeignArchive )
    @@ [ n \in { "~/RSR_backups/rsr_full_OLD" \o ToString(k) \o ".tar.gz" : k \in FlatSizes \ {1} }
           |-> FlatArchive(CHOOSE k \in FlatSizes : n = "~/RSR_backups/rsr_full_OLD" \o ToString(k) \o ".tar.gz") ]

\* The members whose extraction may be made to fail: the first and the last.
MemberCandidates(ms) == { ms[i].name : i \in {1, Len(ms)} \cap 1..Len(ms) }

\* The kinds of per-member failure the extract loop tells apart.
MemberFaultKinds == {"perm", "other"}

\* What the restore directory holds when it is there before the job.
PreExisting(dir) ==
    [ p \in { join(dir, n) : n \in {"a", "a.txt", "f1", "stale"} } |-> "old" ]

\* The filesystem before a backup has looked at it.
NoTree == <<>>

Small(n) == n <= MaxPaired

VARIABLES
    tree,          \* the filesystem under "/", as the backup finds it
    faulty,        \* the files whose tar.add raises
    faultKind,     \* which error they raise
    archives,      \* archive files on disk: path -> Archive
    disk,          \* files under the restore base dir: path -> content
    dirs,          \* directories that exist under the restore base dir
    busy,          \* RSRWindow: the action buttons are disabled
    \* BackupWorker
    bpc,           \* position of the backup thread
    b_cancelled,   \* BackupWorker._cancelled
    b_cancel_at,   \* where the worker stood when cancel() first set the flag
    walk,          \* os.walk: directories still to be yielded
    visited,       \* directories os.walk has listed and yielded
    all_files,     \* all_files
    bidx,          \* idx of the add loop
    added,         \* added
    bexit,         \* how the with block is being left: "return" | "normal"
    bevents,       \* signals emitted by the backup worker
    b_ts,          \* the second at which dest_file was named, counted from
                   \* the first backup of the behaviour
    bseen,         \* finished signals of the backup worker the window has
                   \* handled; below 0 while signals of an earlier worker wait
    \* RestoreWorker
    rpc,           \* position of the restore thread
    r_cancelled,   \* RestoreWorker._cancelled
    r_cancel_at,   \* where the worker stood when cancel() first set the flag
    archive_path,  \* RestoreWorker.archive_path
    extract_dir,   \* RestoreWorker.extract_dir
    preexisting,   \* whether extract_dir was there when the job started
    rfaulty,       \* the member names whose tar.extract raises
    rfaultKind,    \* which error they raise
    members,       \* members = tar.getmembers()
    ridx,          \* idx of the extract loop
    rexit,         \* how the with block is being left
    revents,       \* signals emitted by the restore worker
    rseen,         \* finished signals of the restore worker the window has
                   \* handled; below 0 while signals of an earlier worker wait
    \* RSRWindow
    b_jobs,        \* BackupWorker objects created so far
    r_jobs,        \* RestoreWorker objects created so far
    overlapped,    \* kinds of worker started while one of the kind was running
    rejected,        \* the "already running" warnings shown
    \* WorkerThread of the packaged variant
    wpc,           \* position of the worker thread
    wkind,         \* which job closure it runs: "backup" | "restore"
    wevents,       \* started_signal and finished_signal emissions
    wseen          \* signals of the worker the window has handled

bvars == <<bpc, b_cancelled, b_cancel_at, walk, visited, all_files, bidx, added, bexit, bevents, b_ts>>
rvars == <<rpc, r_cancelled, r_cancel_at, archive_path, extract_dir, preexisting, rfaulty,
           rfaultKind, members, ridx, rexit, revents>>
envvars == <<tree, faulty, faultKind>>
wvars == <<wpc, wkind, wevents>>
jobvars == <<b_jobs, r_jobs, overlapped, rejected>>
vars == <<envvars, archives, disk, dirs, busy, bvars, bseen, rvars, rseen, wvars, wseen, jobvars>>

\* dest_file of the backup worker
dest_file == DestFile(b_ts)

\* The items a job has processed: the iterations of its item loop that ended.
BProcessed ==
    IF bidx = 0 THEN 0
    ELSE IF bpc \in {"check", "add"} \/ bexit = "return" THEN bidx - 1
    ELSE bidx

RProcessed ==
    IF ridx = 0 THEN 0
    ELSE IF rpc \in {"check", "extract"} \/ rexit = "return" THEN ridx - 1
    ELSE ridx

\* os.walk with followlinks=False: of the names left in dirnames it walks
\* into those that are no symbolic links.
WalkInto(dirpath, dirnames) ==
    JoinAll(dirpath, SelectSeq(dirnames, LAMBDA n : n \notin tree[dirpath].links))

\* The directories os.walk has still to yield, as far as they are known.
DirsToYield ==
    IF bpc = "walk" THEN walk
    ELSE IF bpc = "collect"
    THEN WalkInto(Head(walk), IF is_excluded(Head(walk)) THEN <<>> ELSE tree[Head(walk)].dirs)
         \o Tail(walk)
    ELSE <<>>

\* The moment of a cancel(): k of n items processed, whether the worker
\* was already past the checkpoint of item k+1, where the worker stood, and
\* how many directories the walk had still to yield.
CancelAt(k, n, past, pc, left) == [k |-> k, n |-> n, past |-> past, pc |-> pc, left |-> left]
NotCancelled == CancelAt(0 - 1, 0 - 1, FALSE, "none", 0)

Init ==
    /\ tree = NoTree
    /\ faulty = {}
    /\ faultKind = "perm"
    /\ archives = StockArchives
    /\ disk = <<>>
    /\ dirs = {}
    /\ busy = FALSE
    /\ bpc = "none"
    /\ b_cancelled = FALSE
    /\ b_cancel_at = NotCancelled
    /\ walk = <<>>
    /\ visited = <<>>
    /\ all_files = <<>>
    /\ bidx = 0
    /\ added = 0
    /\ bexit = "normal"
    /\ bevents = <<>>
    /\ bseen = 0
    /\ rpc = "none"
    /\ r_cancelled = FALSE
    /\ r_cancel_at = NotCancelled
    /\ archive_path = ""
    /\ extract_dir = ""
    /\ preexisting = FALSE
    /\ rfaulty = {}
    /\ rfaultKind = "perm"
    /\ members = <<>>
    /\ ridx = 0
    /\ rexit = "normal"
    /\ revents = <<>>
    /\ rseen = 0
    /\ wpc = "none"
    /\ wkind = ""
    /\ wevents = <<>>
    /\ wseen = 0
    /\ b_ts = 0
    /\ b_jobs = 0
    /\ r_jobs = 0
    /\ overlapped = {}
    /\ rejected = {}

(***************************************************************************)
(* BackupWorker                                                            *)
(***************************************************************************)
\* (mutant) cancel() flips the flag.
BackupCancelToggle ==
    /\ bpc # "none"
    /\ b_jobs + r_jobs <= 1
    /\ b_cancelled' = ~b_cancelled
    /\ b_cancel_at' = IF b_cancelled THEN b_cancel_at
                      ELSE CancelAt(BProcessed, Len(all_files), bpc = "add", bpc, Len(DirsToYield))
    /\ UNCHANGED <<envvars, archives, disk, dirs, busy, bpc, walk, visited,
                   all_files, bidx, added, bexit, bevents, bseen, rvars, rseen, wvars, wseen, b_ts, jobvars>>

\* BackupWorker.cancel, called by the invoker at any time once the worker
\* object exists.
BackupCancel ==
    /\ bpc # "none"
    /\ b_jobs + r_jobs <= 1
    /\ b_cancelled' = TRUE
    /\ b_cancel_at' = IF b_cancelled THEN b_cancel_at
                      ELSE CancelAt(BProcessed, Len(all_files), bpc = "add", bpc, Len(DirsToYield))
    /\ UNCHANGED <<envvars, archives, disk, dirs, busy, bpc, walk, visited,
                   all_files, bidx, added, bexit, bevents, bseen, rvars, rseen, wvars, wseen, b_ts, jobvars>>

\* (mutant) the except of run() logs and emits no result.
BackupExceptSilent(evs, e) ==
    evs \o << Log("critical", e), Log("traceback", e) >>

\* (mutant) the except of run() emits the result with no trace.
BackupExceptUntraced(evs, e) ==
    evs \o << Log("critical", e), Failure(MSG_BACKUP_ERROR, e) >>

\* The except clause of BackupWorker.run: two log lines, then finished.
BackupExcept(evs, e) ==
    evs \o << Log("critical", e), Log("traceback", e), Failure(MSG_BACKUP_ERROR, e) >>

\* _do_backup up to the walk: ensure_dir, dest_file from the clock, the
\* start log, progress 0.  The clock shows the second of the previous
\* backup or a later one.
BackupBegin ==
    /\ bpc = "start"
    /\ \/ \* ensure_dir(dest_root) raises
          /\ bevents' = BackupExcept(bevents, "makedirs")
          /\ bpc' = "done"
          /\ UNCHANGED <<walk, b_ts>>
       \/ \E ts \in (IF b_jobs > 1 THEN {b_ts, b_ts + 1} ELSE {b_ts}) :
             /\ b_ts' = ts
             /\ bevents' = bevents \o << Log("start", DestFile(ts)), Progress(0), Log("listing", "") >>
             /\ walk' = <<root>>
             /\ bpc' = "walk"
    /\ UNCHANGED <<envvars, archives, disk, dirs, busy, b_cancelled, b_cancel_at, visited,
                   all_files, bidx, added, bexit, bseen, rvars, rseen, wvars, wseen, jobvars>>

\* (mutant) the walk loop does not poll the flag.
BackupWalkDirUnchecked ==
    /\ bpc = "walk"
    /\ walk # <<>>
    /\ visited' = Append(visited, Head(walk))
    /\ bpc' = "collect"
    /\ UNCHANGED <<envvars, archives, disk, dirs, busy, b_cancelled, b_cancel_at, walk,
                   all_files, bidx, added, bexit, bevents, bseen, rvars, rseen, wvars, wseen,
                   b_ts, jobvars>>

\* The top of one iteration of  for dirpath, dirnames, filenames in
\* os.walk(root):  os.walk lists and yields the next directory, and the
\* body polls the flag.
BackupWalkDir ==
    /\ bpc = "walk"
    /\ walk # <<>>
    /\ visited' = Append(visited, Head(walk))
    /\ IF b_cancelled
       THEN /\ bevents' = Append(bevents, Finished(FALSE, MSG_BACKUP_CANCELLED))
            /\ bpc' = "done"
       ELSE /\ bpc' = "collect"
            /\ UNCHANGED bevents
    /\ UNCHANGED <<envvars, archives, disk, dirs, busy, b_cancelled, b_cancel_at, walk,
                   all_files, bidx, added, bexit, bseen, rvars, rseen, wvars, wseen, b_ts, jobvars>>

\* The rest of the iteration: the lists of an excluded directory are
\* cleared, the files are collected, and os.walk goes on with the
\* sub-directories left in dirnames, depth first.
BackupCollect ==
    /\ bpc = "collect"
    /\ LET dirpath == Head(walk)
           excl == is_excluded(dirpath)
           dirnames == IF excl THEN <<>> ELSE tree[dirpath].dirs
           filenames == IF excl THEN <<>> ELSE tree[dirpath].files
           rest == WalkInto(dirpath, dirnames) \o Tail(walk)
       IN  /\ all_files' = all_files \o JoinAll(dirpath, filenames)
           /\ walk' = rest
           /\ bpc' = IF rest = <<>> THEN "total" ELSE "walk"
    /\ UNCHANGED <<envvars, archives, disk, dirs, busy, b_cancelled, b_cancel_at, visited,
                   bidx, added, bexit, bevents, bseen, rvars, rseen, wvars, wseen, b_ts, jobvars>>

\* (mutant) the archive is opened before the total is looked at.
BackupOpenFirst ==
    /\ bpc = "total"
    /\ archives' = (dest_file :> Archive(TRUE, <<>>)) @@ archives
    /\ IF Len(all_files) = 0
       THEN /\ bevents' = Append(bevents, Finished(FALSE, MSG_NOTHING_TO_BACKUP))
            /\ bexit' = "return"
            /\ bpc' = "close"
            /\ UNCHANGED bidx
       ELSE /\ bevents' = Append(bevents, Log("total", ToString(Len(all_files))))
            /\ bidx' = 1
            /\ bpc' = "check"
            /\ UNCHANGED bexit
    /\ UNCHANGED <<envvars, disk, dirs, busy, b_cancelled, b_cancel_at, walk,
                   visited, all_files, added, bseen, rvars, rseen, wvars, wseen, b_ts, jobvars>>

\* total = len(all_files); the nothing-to-back-up exit; tarfile.open(dest_file, "w:gz")
BackupOpen ==
    /\ bpc = "total"
    /\ IF Len(all_files) = 0
       THEN /\ bevents' = Append(bevents, Finished(FALSE, MSG_NOTHING_TO_BACKUP))
            /\ bpc' = "done"
            /\ UNCHANGED <<archives, bidx>>
       ELSE \/ \* tarfile.open raises: the destination cannot be created
               /\ bevents' = BackupExcept(Append(bevents, Log("total", ToString(Len(all_files)))), "open")
               /\ bpc' = "done"
               /\ UNCHANGED <<archives, bidx>>
            \/ /\ bevents' = Append(bevents, Log("total", ToString(Len(all_files))))
               /\ archives' = (dest_file :> Archive(TRUE, <<>>)) @@ archives
               /\ bidx' = 1
               /\ bpc' = "check"
    /\ UNCHANGED <<envvars, disk, dirs, busy, b_cancelled, b_cancel_at, walk, visited,
                   all_files, added, bexit, bseen, rvars, rseen, wvars, wseen, b_ts, jobvars>>

\* (mutant) a set flag breaks out of the loop instead of returning.
BackupCheckBreak ==
    /\ bpc = "check"
    /\ IF b_cancelled
       THEN /\ bexit' = "normal"
            /\ bpc' = "close"
       ELSE /\ bpc' = "add"
            /\ UNCHANGED bexit
    /\ UNCHANGED <<envvars, archives, disk, dirs, busy, b_cancelled, b_cancel_at,
                   walk, visited, all_files, bidx, added, bevents, bseen, rvars, rseen, wvars, wseen, b_ts, jobvars>>

\* (mutant) a cancelled backup deletes its partial archive.
BackupCheckCleanup ==
    /\ bpc = "check"
    /\ IF b_cancelled
       THEN /\ bevents' = Append(bevents, Finished(FALSE, MSG_BACKUP_CANCELLED))
            /\ archives' = [q \in DOMAIN archives \ {dest_file} |-> archives[q]]
            /\ bexit' = "return"
            /\ bpc' = "close"
       ELSE /\ bpc' = "add"
            /\ UNCHANGED <<archives, bevents, bexit>>
    /\ UNCHANGED <<envvars, disk, dirs, busy, b_cancelled, b_cancel_at, walk,
                   visited, all_files, bidx, added, bseen, rvars, rseen, wvars, wseen, b_ts, jobvars>>

\* The cancellation checkpoint at the top of the add loop.
BackupCheck ==
    /\ bpc = "check"
    /\ IF b_cancelled
       THEN /\ bevents' = Append(bevents, Finished(FALSE, MSG_BACKUP_CANCELLED))
            /\ bexit' = "return"
            /\ bpc' = "close"
       ELSE /\ bpc' = "add"
            /\ UNCHANGED <<bevents, bexit>>
    /\ UNCHANGED <<envvars, archives, disk, dirs, busy, b_cancelled, b_cancel_at, walk,
                   visited, all_files, bidx, added, bseen, rvars, rseen, wvars, wseen, b_ts, jobvars>>

\* (mutant) the path as it is.
ArcNameKeep(full_path) == full_path

\* arcname = full_path.lstrip(os.sep)
ArcName(full_path) == lstrip(full_path, sep)

\* The skip log line of each except clause of the add loop.
SkipTag(kind) ==
    CASE kind = "perm" -> "skip-no-access"
      [] kind = "gone" -> "skip-vanished"
      [] OTHER -> "skip-error"

\* The progress emission that ends an iteration of an item loop.
LoopProgress(i, total) ==
    IF EmitsProgress(i, total) THEN << Progress(Percent(i, total)) >> ELSE <<>>

\* (mutant) an error of tar.add that is neither PermissionError nor
\* FileNotFoundError is not caught in the loop.
BackupAddAbort ==
    /\ bpc = "add"
    /\ LET full_path == all_files[bidx]
           total == Len(all_files)
           fails == full_path \in faulty
           caught == fails /\ faultKind # "other"
           skip == IF caught THEN << Log(SkipTag(faultKind), full_path) >> ELSE <<>>
       IN  IF fails /\ ~caught
           THEN /\ bevents' = BackupExcept(bevents, full_path)
                /\ bpc' = "done"
                /\ UNCHANGED <<archives, added, bidx, bexit, b_ts, jobvars>>
           ELSE /\ archives' =
                       IF fails THEN archives
                       ELSE [archives EXCEPT ![dest_file].members =
                                Append(@, Member(ArcName(full_path), FileContent(full_path)))]
                /\ added' = IF fails THEN added ELSE added + 1
                /\ bevents' = bevents \o skip \o LoopProgress(bidx, total)
                /\ IF bidx = total
                   THEN /\ bpc' = "close"
                        /\ bexit' = "normal"
                        /\ UNCHANGED bidx
                   ELSE /\ bidx' = bidx + 1
                        /\ bpc' = "check"
                        /\ UNCHANGED bexit
    /\ UNCHANGED <<envvars, disk, dirs, busy, b_cancelled, b_cancel_at, walk,
                   visited, all_files, bseen, rvars, rseen, wvars, wseen, b_ts, jobvars>>

\* (mutant) added is incremented before tar.add is called.
BackupAddCountsFirst ==
    /\ bpc = "add"
    /\ LET full_path == all_files[bidx]
           total == Len(all_files)
           fails == full_path \in faulty
           skip == IF fails THEN << Log(SkipTag(faultKind), full_path) >> ELSE <<>>
       IN  /\ archives' =
                  IF fails THEN archives
                  ELSE [archives EXCEPT ![dest_file].members =
                           Append(@, Member(ArcName(full_path), FileContent(full_path)))]
           /\ added' = added + 1
           /\ bevents' = bevents \o skip \o LoopProgress(bidx, total)
           /\ IF bidx = total
              THEN /\ bpc' = "close"
                   /\ bexit' = "normal"
                   /\ UNCHANGED bidx
              ELSE /\ bidx' = bidx + 1
                   /\ bpc' = "check"
                   /\ UNCHANGED bexit
    /\ UNCHANGED <<envvars, disk, dirs, busy, b_cancelled, b_cancel_at, walk, visited,
                   all_files, bseen, rvars, rseen, wvars, wseen, b_ts, jobvars>>

\* (mutant) a file whose add raised is logged as skipped and then added
\* at a second attempt.
BackupAddRetry ==
    /\ bpc = "add"
    /\ LET full_path == all_files[bidx]
           total == Len(all_files)
           fails == full_path \in faulty
           skip == IF fails THEN << Log(SkipTag(faultKind), full_path) >> ELSE <<>>
       IN  /\ archives' =
                  [archives EXCEPT ![dest_file].members =
                      Append(@, Member(ArcName(full_path), FileContent(full_path)))]
           /\ added' = added + 1
           /\ bevents' = bevents \o skip \o LoopProgress(bidx, total)
           /\ IF bidx = total
              THEN /\ bpc' = "close"
                   /\ bexit' = "normal"
                   /\ UNCHANGED bidx
              ELSE /\ bidx' = bidx + 1
                   /\ bpc' = "check"
                   /\ UNCHANGED bexit
    /\ UNCHANGED <<envvars, disk, dirs, busy, b_cancelled, b_cancel_at, walk, visited,
                   all_files, bseen, rvars, rseen, wvars, wseen, b_ts, jobvars>>

\* The rest of one iteration of the add loop: tar.add under its three except
\* clauses, then the progress emission.
BackupAdd ==
    /\ bpc = "add"
    /\ LET full_path == all_files[bidx]
           total == Len(all_files)
           fails == full_path \in faulty
           skip == IF fails THEN << Log(SkipTag(faultKind), full_path) >> ELSE <<>>
       IN  /\ archives' =
                  IF fails THEN archives
                  ELSE [archives EXCEPT ![dest_file].members =
                           Append(@, Member(ArcName(full_path), FileContent(full_path)))]
           /\ added' = IF fails THEN added ELSE added + 1
           /\ bevents' = bevents \o skip \o LoopProgress(bidx, total)
           /\ IF bidx = total
              THEN /\ bpc' = "close"
                   /\ bexit' = "normal"
                   /\ UNCHANGED bidx
              ELSE /\ bidx' = bidx + 1
                   /\ bpc' = "check"
                   /\ UNCHANGED bexit
    /\ UNCHANGED <<envvars, disk, dirs, busy, b_cancelled, b_cancel_at, walk, visited,
                   all_files, bseen, rvars, rseen, wvars, wseen, b_ts, jobvars>>

\* (mutant) the flag is polled once more after the loop.
BackupCloseChecked ==
    /\ bpc = "close"
    /\ \/ bevents' = BackupExcept(bevents, "close")
       \/ bevents' =
              IF bexit = "return" THEN bevents
              ELSE IF b_cancelled THEN Append(bevents, Finished(FALSE, MSG_BACKUP_CANCELLED))
              ELSE bevents \o << Progress(100), Log("done", ToString(added)),
                                 Finished(TRUE, MSG_BACKUP_DONE) >>
    /\ bpc' = "done"
    /\ UNCHANGED <<envvars, archives, disk, dirs, busy, b_cancelled, b_cancel_at, walk,
                   visited, all_files, bidx, added, bexit, bseen, rvars, rseen, wvars, wseen, b_ts, jobvars>>

\* Leaving  with tarfile.open(...) as tar:  closes the archive, which may
\* raise (the trailer no longer fits on the disk); after a normal end of
\* the loop come progress 100, the closing log line and finished(True).
BackupClose ==
    /\ bpc = "close"
    /\ \/ bevents' = BackupExcept(bevents, "close")
       \/ bevents' =
              IF bexit = "return" THEN bevents
              ELSE bevents \o << Progress(100), Log("done", ToString(added)),
                                 Finished(TRUE, MSG_BACKUP_DONE) >>
    /\ bpc' = "done"
    /\ UNCHANGED <<envvars, archives, disk, dirs, busy, b_cancelled, b_cancel_at, walk,
                   visited, all_files, bidx, added, bexit, bseen, rvars, rseen, wvars, wseen, b_ts, jobvars>>

(***************************************************************************)
(* RSRWindow: the backup button.                                           *)
(***************************************************************************)
\* QThread.isRunning of the backup worker
BackupRunning == bpc \notin {"none", "done"}

\* A worker that is not the first of the behaviour starts only after small
\* jobs without cancel request and without failing member; files of the
\* first backup may have failed.
SmallSession ==
    /\ ~b_cancelled /\ ~r_cancelled
    /\ rfaulty = {}
    /\ Small(Len(members)) /\ Small(Cardinality(TreeFiles(tree)))

\* The trees a new backup may find: any for the first worker of the
\* behaviour, small ones afterwards.
BackupInputs ==
    IF b_jobs = 0 /\ r_jobs = 0 THEN Trees
    ELSE { t \in Trees : Small(Cardinality(TreeFiles(t))) }

\* self.backup_worker = BackupWorker(); connect; start(); _set_busy(True).
\* The filesystem the job will find is drawn here.  Finished signals of the
\* worker that is replaced may still wait to be handled.
StartBackup ==
    /\ b_jobs + r_jobs < MaxJobs
    /\ b_jobs + r_jobs > 0 => SmallSession
    /\ \E t \in BackupInputs :
          /\ tree' = t
          /\ \E F \in { G \in SUBSET FaultCandidates(t) :
                           Cardinality(G) <= (IF b_jobs = 0 /\ r_jobs = 0 THEN MaxFaulty ELSE 0) } :
                /\ faulty' = F
                /\ faultKind' \in (IF F = {} THEN {"perm"} ELSE FaultKinds)
    /\ b_jobs' = b_jobs + 1
    /\ overlapped' = IF BackupRunning THEN overlapped \cup {"backup"} ELSE overlapped
    /\ bpc' = "start"
    /\ b_cancelled' = FALSE
    /\ b_cancel_at' = NotCancelled
    /\ walk' = <<>>
    /\ visited' = <<>>
    /\ all_files' = <<>>
    /\ bidx' = 0
    /\ added' = 0
    /\ bexit' = "normal"
    /\ bevents' = <<>>
    /\ bseen' = bseen - Len(Results(bevents))
    /\ busy' = TRUE
    /\ UNCHANGED <<archives, disk, dirs, b_ts, rvars, rseen, wvars, wseen, r_jobs, rejected>>

\* (mutant) the button is not disabled while a job runs.
on_full_backup_clicked_enabled ==
    /\ wpc = "none"
    /\ ~BackupRunning
    /\ StartBackup

\* on_full_backup_clicked: while a backup worker runs, a warning and
\* nothing else; otherwise a new BackupWorker is created and started and
\* the buttons are disabled.  The button delivers clicks only while it is
\* enabled.  (A click whose ensure_dir raises shows a message and changes
\* nothing.)
on_full_backup_clicked ==
    /\ ~busy
    /\ wpc = "none"
    /\ IF BackupRunning
       THEN /\ rejected' = rejected \cup {"backup"}
            /\ UNCHANGED <<envvars, archives, disk, dirs, busy, bvars, bseen, rvars, rseen,
                           wvars, wseen, b_jobs, r_jobs, overlapped>>
       ELSE StartBackup

\* _on_backup_finished, run once for every finished signal delivered.
OnBackupFinished ==
    /\ bseen < Len(Results(bevents))
    /\ bseen' = bseen + 1
    /\ busy' = FALSE
    /\ UNCHANGED <<envvars, archives, disk, dirs, bvars, rvars, rseen, wvars, wseen, jobvars>>

(***************************************************************************)
(* RestoreWorker                                                           *)
(***************************************************************************)
\* RestoreWorker.cancel
RestoreCancel ==
    /\ rpc # "none"
    /\ b_jobs + r_jobs <= 1
    /\ r_cancelled' = TRUE
    /\ r_cancel_at' = IF r_cancelled THEN r_cancel_at
                      ELSE CancelAt(RProcessed, Len(members), rpc = "extract", rpc, 0)
    /\ UNCHANGED <<envvars, archives, disk, dirs, busy, bvars, bseen, rpc,
                   archive_path, extract_dir, preexisting, rfaulty, rfaultKind,
                   members, ridx, rexit, revents, rseen, wvars, wseen, jobvars>>

\* The except clause of RestoreWorker.run.
RestoreExcept(evs, e) ==
    evs \o << Log("critical", e), Log("traceback", e), Failure(MSG_RESTORE_ERROR, e) >>

\* ensure_dir: os.makedirs(path, exist_ok=True)
ensure_dir(ds, path) == ds \cup {path}

\* (mutant) the archive is opened before the directory is created.
RestoreBeginOpenFirst ==
    /\ rpc = "start"
    /\ LET started == Append(revents, Log("start", archive_path))
           ms == archives[archive_path].members
       IN  IF ~archives[archive_path].valid
           THEN /\ revents' = RestoreExcept(started, "open")
                /\ rpc' = "done"
                /\ UNCHANGED <<dirs, members, ridx, rexit>>
           ELSE \/ \* os.makedirs raises
                   /\ revents' = RestoreExcept(started, "makedirs")
                   /\ rpc' = "done"
                   /\ UNCHANGED <<dirs, members, ridx, rexit>>
                \/ /\ dirs' = ensure_dir(dirs, extract_dir)
                   /\ members' = ms
                   /\ IF Len(ms) = 0
                      THEN /\ revents' = Append(started, Finished(FALSE, MSG_ARCHIVE_EMPTY))
                           /\ rexit' = "return"
                           /\ rpc' = "close"
                           /\ UNCHANGED ridx
                      ELSE /\ revents' = started
                           /\ ridx' = 1
                           /\ rpc' = "check"
                           /\ UNCHANGED rexit
    /\ UNCHANGED <<envvars, archives, disk, busy, bvars, bseen, r_cancelled, r_cancel_at,
                   archive_path, extract_dir, preexisting, rfaulty, rfaultKind, rseen, wvars, wseen, jobvars>>

\* _do_restore up to the loop: the start log, ensure_dir(extract_dir),
\* tarfile.open(archive_path, "r:gz"), getmembers, the empty-archive exit.
RestoreBegin ==
    /\ rpc = "start"
    /\ LET started == Append(revents, Log("start", archive_path))
           ms == archives[archive_path].members
       IN  \/ \* os.makedirs raises
              /\ revents' = RestoreExcept(started, "makedirs")
              /\ rpc' = "done"
              /\ UNCHANGED <<dirs, members, ridx, rexit, jobvars>>
           \/ /\ dirs' = ensure_dir(dirs, extract_dir)
              /\ IF ~archives[archive_path].valid
                 THEN /\ revents' = RestoreExcept(started, "open")
                      /\ rpc' = "done"
                      /\ UNCHANGED <<members, ridx, rexit, jobvars>>
                 ELSE /\ members' = ms
                      /\ IF Len(ms) = 0
                         THEN /\ revents' = Append(started, Finished(FALSE, MSG_ARCHIVE_EMPTY))
                              /\ rexit' = "return"
                              /\ rpc' = "close"
                              /\ UNCHANGED ridx
                         ELSE /\ revents' = started
                              /\ ridx' = 1
                              /\ rpc' = "check"
                              /\ UNCHANGED rexit
    /\ UNCHANGED <<envvars, archives, disk, busy, bvars, bseen, r_cancelled, r_cancel_at,
                   archive_path, extract_dir, preexisting, rfaulty, rfaultKind, rseen, wvars, wseen, jobvars>>

\* The cancellation checkpoint at the top of the extract loop.
RestoreCheck ==
    /\ rpc = "check"
    /\ IF r_cancelled
       THEN /\ revents' = Append(revents, Finished(FALSE, MSG_RESTORE_CANCELLED))
            /\ rexit' = "return"
            /\ rpc' = "close"
       ELSE /\ rpc' = "extract"
            /\ UNCHANGED <<revents, rexit, jobvars>>
    /\ UNCHANGED <<envvars, archives, disk, dirs, busy, bvars, bseen,
                   r_cancelled, r_cancel_at, archive_path, extract_dir, preexisting, rfaulty,
                   rfaultKind, members, ridx, rseen, wvars, wseen, jobvars>>

\* (mutant) the file is created and its bytes are not written.
ExtractToTruncated(d, path, member) == (join(path, member.name) :> "") @@ d

\* tar.extract(member, path=extract_dir): the member is written at
\* os.path.join(path, member.name), over a file that is already there.
ExtractTo(d, path, member) == (join(path, member.name) :> member.content) @@ d

\* p.split(os.sep) without the empty components: the runs of characters
\* between separators, in order.
Components(p) ==
    LET isSep(i) == SubSeq(p, i, i) = sep
        starts == { i \in 1..Len(p) : ~isSep(i) /\ (i = 1 \/ isSep(i - 1)) }
        ends == { i \in 1..Len(p) : ~isSep(i) /\ (i = Len(p) \/ isSep(i + 1)) }
        nth(S, k) == CHOOSE i \in S : Cardinality({ j \in S : j < i }) = k - 1
    IN  [k \in 1..Cardinality(starts) |-> SubSeq(p, nth(starts, k), nth(ends, k))]

\* The components os.path.normpath keeps: a ".." takes back the nearest
\* component before it that is still there, so a component stays when no
\* stretch after it holds more ".." than names.
Collapse(cs) ==
    LET dots(a, b) == Cardinality({ k \in a..b : cs[k] = ".." })
        stays(i) == cs[i] # ".." /\ \A j \in (i + 1)..Len(cs) : 2 * dots(i + 1, j) <= j - i
        keep == { i \in 1..Len(cs) : stays(i) }
        nth(k) == CHOOSE i \in keep : Cardinality({ j \in keep : j < i }) = k - 1
    IN  [k \in 1..Cardinality(keep) |-> cs[nth(k)]]

\* The components of os.path.normpath(p); the path and its components are
\* each computed once.
normpath(p) ==
    LET Norm(q) == CHOOSE r \in { Collapse(cs) : cs \in {Components(q)} } : TRUE
    IN  CHOOSE r \in { Norm(q) : q \in {p} } : TRUE

\* The file at p lies in or beneath the directory d.
LiesUnder(p, d) ==
    \E a \in {normpath(d)}, b \in {normpath(p)} :
        Len(a) < Len(b) /\ SubSeq(b, 1, Len(a)) = a

\* tarfile's extraction filter is the interpreter's default (no filter
\* argument is passed): fully_trusted writes the member at
\* os.path.join(path, name) whatever the name is; data strips leading
\* separators and raises for a name that still leaves the destination.
\* The outcomes of extracting one member that does not fail otherwise:
\* the disk afterwards, or a raise.
ExtractOutcomes(d, path, member) ==
    LET stripped == [member EXCEPT !.name = lstrip(member.name, sep)]
    IN  { [disk |-> ExtractTo(d, path, member), raised |-> FALSE] }
        \cup { IF LiesUnder(join(path, stripped.name), path)
               THEN [disk |-> ExtractTo(d, path, stripped), raised |-> FALSE]
               ELSE [disk |-> d, raised |-> TRUE] }

\* (mutant) the general except clause of the extract loop passes in
\* silence.
RestoreExtractQuiet ==
    /\ rpc = "extract"
    /\ LET member == members[ridx]
           total == Len(members)
       IN  /\ \E o \in (IF member.name \in rfaulty
                         THEN { [disk |-> disk, raised |-> TRUE] }
                         ELSE ExtractOutcomes(disk, extract_dir, member)) :
                 /\ disk' = o.disk
                 /\ revents' = revents
                       \o (IF o.raised /\ member.name \in rfaulty /\ rfaultKind = "perm"
                           THEN << Log(SkipTag("perm"), member.name) >>
                           ELSE <<>>)
                       \o LoopProgress(ridx, total)
           /\ IF ridx = total
              THEN /\ rpc' = "close"
                   /\ rexit' = "normal"
                   /\ UNCHANGED ridx
              ELSE /\ ridx' = ridx + 1
                   /\ rpc' = "check"
                   /\ UNCHANGED rexit
    /\ UNCHANGED <<envvars, archives, dirs, busy, bvars, bseen, r_cancelled, r_cancel_at,
                   archive_path, extract_dir, preexisting, rfaulty, rfaultKind,
                   members, rseen, wvars, wseen, jobvars>>

\* The rest of one iteration of the extract loop.
RestoreExtract ==
    /\ rpc = "extract"
    /\ LET member == members[ridx]
           total == Len(members)
       IN  /\ \E o \in (IF member.name \in rfaulty
                         THEN { [disk |-> disk, raised |-> TRUE] }
                         ELSE ExtractOutcomes(disk, extract_dir, member)) :
                 /\ disk' = o.disk
                 /\ revents' = revents
                       \o (IF o.raised
                           THEN << Log(SkipTag(IF member.name \in rfaulty THEN rfaultKind ELSE "other"),
                                       member.name) >>
                           ELSE <<>>)
                       \o LoopProgress(ridx, total)
           /\ IF ridx = total
              THEN /\ rpc' = "close"
                   /\ rexit' = "normal"
                   /\ UNCHANGED ridx
              ELSE /\ ridx' = ridx + 1
                   /\ rpc' = "check"
                   /\ UNCHANGED rexit
    /\ UNCHANGED <<envvars, archives, dirs, busy, bvars, bseen, r_cancelled, r_cancel_at,
                   archive_path, extract_dir, preexisting, rfaulty, rfaultKind,
                   members, rseen, wvars, wseen, jobvars>>

\* Leaving  with tarfile.open(...) as tar:  closes the archive, which may
\* raise; after a normal end of the loop come progress 100, the closing log
\* line and finished(True).
RestoreClose ==
    /\ rpc = "close"
    /\ \/ revents' = RestoreExcept(revents, "close")
       \/ revents' =
              IF rexit = "return" THEN revents
              ELSE revents \o << Progress(100), Log("done", ""),
                                 Finished(TRUE, MSG_RESTORE_DONE) >>
    /\ rpc' = "done"
    /\ UNCHANGED <<envvars, archives, disk, dirs, busy, bvars, bseen,
                   r_cancelled, r_cancel_at, archive_path, extract_dir, preexisting, rfaulty,
                   rfaultKind, members, ridx, rexit, rseen, wvars, wseen, jobvars>>

(***************************************************************************)
(* RSRWindow: the restore button.                                          *)
(***************************************************************************)
\* QThread.isRunning of the restore worker
RestoreRunning == rpc \notin {"none", "done"}

\* The archives the file dialog may return and the members made to fail:
\* any for the first worker of the behaviour, small archives afterwards,
\* and no failing member for a later restore.
RestoreInputs ==
    IF b_jobs = 0 /\ r_jobs = 0 THEN DOMAIN archives
    ELSE { a \in DOMAIN archives : Small(Len(archives[a].members)) }

\* self.restore_worker = RestoreWorker(archive_path, extract_dir); connect;
\* start(); _set_busy(True).  extract_dir is the restore base dir joined
\* with RSR_test_<timestamp>, which may be there already.
StartRestore ==
    /\ b_jobs + r_jobs < MaxJobs
    /\ b_jobs + r_jobs > 0 => SmallSession
    /\ \E a \in RestoreInputs :
          /\ archive_path' = a
          /\ \E F \in { G \in SUBSET MemberCandidates(archives[a].members) :
                           Cardinality(G) <= (IF b_jobs = 0 /\ r_jobs = 0 THEN MaxFaulty ELSE 0) } :
                /\ rfaulty' = F
                /\ rfaultKind' \in (IF F = {} THEN {"perm"} ELSE MemberFaultKinds)
    /\ extract_dir' = extract_dir_name
    /\ \E pre \in (IF b_jobs = 0 /\ r_jobs = 0 THEN BOOLEAN ELSE {FALSE}) :
          /\ preexisting' = pre
          /\ dirs' = IF pre THEN {extract_dir_name} ELSE {}
          /\ disk' = IF pre THEN PreExisting(extract_dir_name) ELSE <<>>
    /\ r_jobs' = r_jobs + 1
    /\ overlapped' = IF RestoreRunning THEN overlapped \cup {"restore"} ELSE overlapped
    /\ rpc' = "start"
    /\ r_cancelled' = FALSE
    /\ r_cancel_at' = NotCancelled
    /\ members' = <<>>
    /\ ridx' = 0
    /\ rexit' = "normal"
    /\ revents' = <<>>
    /\ rseen' = rseen - Len(Results(revents))
    /\ busy' = TRUE
    /\ UNCHANGED <<envvars, archives, bvars, bseen, wvars, wseen, b_jobs, rejected>>

\* (mutant) no isRunning test: every click starts a worker.
on_restore_test_clicked_unguarded ==
    /\ ~busy
    /\ wpc = "none"
    /\ StartRestore

\* on_restore_test_clicked: while a restore worker runs, a warning and
\* nothing else; otherwise the file dialog and a new RestoreWorker.  (A
\* dialog that is dismissed changes nothing.)
on_restore_test_clicked ==
    /\ ~busy
    /\ wpc = "none"
    /\ IF RestoreRunning
       THEN /\ rejected' = rejected \cup {"restore"}
            /\ UNCHANGED <<envvars, archives, disk, dirs, busy, bvars, bseen, rvars, rseen,
                           wvars, wseen, b_jobs, r_jobs, overlapped>>
       ELSE StartRestore

\* _on_restore_finished, run once for every finished signal delivered.
OnRestoreFinished ==
    /\ rseen < Len(Results(revents))
    /\ rseen' = rseen + 1
    /\ busy' = FALSE
    /\ UNCHANGED <<envvars, archives, disk, dirs, bvars, bseen, rvars, wvars, wseen, jobvars>>

(***************************************************************************)
(* The packaged variant: one WorkerThread runs a job closure to its end.   *)
(***************************************************************************)
\* Path.home()
home == "/home/user"

\* BACKUP_DIR / home_backup_<timestamp>.tar.gz
backup_path == "~/RSR_backups/home_backup_TS.tar.gz"

\* RESTORE_TEST_DIR / restore_<timestamp>
target_dir == "~/RSR_restore_test/restore_TS"

MSG_WORKER_DONE == "done"     \* title "Готово"
MSG_WORKER_ERROR == "error"   \* title "Ошибка"

\* A home directory with a sub-directory.
TreeHome ==
    ( "/" :> Dir(<<"home">>, <<>>) )
    @@ ( "/home" :> Dir(<<"user">>, <<>>) )
    @@ ( "/home/user" :> Dir(<<"docs">>, <<"b">>) )
    @@ ( "/home/user/docs" :> Dir(<<>>, <<"c">>) )

\* The filesystems the packaged variant is run on; the second has no home
\* directory at Path.home().
BuildTrees == {TreeHome, TreeMixed}

\* tar.add(name, arcname) with recursive=True: the directory itself, then
\* each entry under os.path.join(arcname, entry), up to the first entry
\* that cannot be read (its error is not caught).  The trees above list
\* files before directories in sorted order.
RECURSIVE AddTree(_, _, _, _)
AddTree(t, bad, name, arcname) ==
    LET fs == t[name].files
        ds == t[name].dirs
        RECURSIVE AddFiles(_)
        AddFiles(i) ==
            IF i > Len(fs) THEN [ms |-> <<>>, ok |-> TRUE]
            ELSE IF join(name, fs[i]) \in bad THEN [ms |-> <<>>, ok |-> FALSE]
            ELSE LET r == AddFiles(i + 1)
                 IN  [ms |-> << Member(join(arcname, fs[i]), FileContent(join(name, fs[i]))) >> \o r.ms,
                      ok |-> r.ok]
        RECURSIVE AddDirs(_)
        AddDirs(i) ==
            IF i > Len(ds) THEN [ms |-> <<>>, ok |-> TRUE]
            ELSE LET sub == AddTree(t, bad, join(name, ds[i]), join(arcname, ds[i]))
                 IN  IF ~sub.ok THEN sub
                     ELSE LET r == AddDirs(i + 1)
                          IN  [ms |-> sub.ms \o r.ms, ok |-> r.ok]
        f == AddFiles(1)
        d == IF f.ok THEN AddDirs(1) ELSE [ms |-> <<>>, ok |-> FALSE]
    IN  [ms |-> << Member(arcname, "") >> \o f.ms \o d.ms, ok |-> f.ok /\ d.ok]

\* The name a member is extracted under: the data filter strips leading
\* separators.
ExtractedName(member, data) == IF data THEN lstrip(member.name, sep) ELSE member.name

\* The index of the first member whose extraction raises, or Len(ms) + 1:
\* one that cannot be written, or under the data filter one whose name
\* still leaves the destination.
StopAt(path, ms, bad, data) ==
    LET failing == { i \in 1..Len(ms) :
                       \/ ms[i].name \in bad
                       \/ data /\ ~LiesUnder(join(path, ExtractedName(ms[i], data)), path) }
    IN  IF failing = {} THEN Len(ms) + 1
        ELSE CHOOSE i \in failing : \A j \in failing : i <= j

\* tar.extractall(path): tar.extract of each member in order, up to the
\* first that fails; a path holds what the last member written there left.
ExtractAll(d, path, ms, stop, data) ==
    LET Written(W) ==
            LET wrote(q) == { w[1] : w \in { v \in W : v[2] = q } }
                last(q) == CHOOSE i \in wrote(q) : \A j \in wrote(q) : j <= i
            IN  [ q \in { w[2] : w \in W } \cup DOMAIN d |->
                    IF wrote(q) # {}
                    THEN ExtractTo(d, path, Member(ExtractedName(ms[last(q)], data),
                                                   ms[last(q)].content))[q]
                    ELSE d[q] ]
    IN  CHOOSE f \in { Written(W) :
                         W \in {{ <<i, join(path, ExtractedName(ms[i], data))>> : i \in 1..(stop - 1) }} } : TRUE

\* The outcomes of tar.extractall(path) under either default filter.
ExtractAllOutcomes(d, path, ms, bad) ==
    UNION { { [disk |-> ExtractAll(d, path, ms, stop, data), ok |-> stop > Len(ms)] :
                stop \in {StopAt(path, ms, bad, data)} } : data \in BOOLEAN }

\* WorkerThread.run, the end of the try: finished_signal(True, ...).
WorkerDone(evs) == Append(evs, Finished(TRUE, MSG_WORKER_DONE))

\* WorkerThread.run, the except clause: traceback.print_exc() to stderr,
\* then finished_signal(False, "Ошибка", f"{description}\n\n{e}").
WorkerExcept(evs, e) ==
    evs \o << Log("stderr-traceback", e), Failure(MSG_WORKER_ERROR, e) >>

\* self.current_worker = WorkerThread(job, ...); connect; start().  The
\* buttons stay enabled until started_signal is handled.
StartBackupHome ==
    /\ \E t \in BuildTrees :
          /\ tree' = t
          /\ \E F \in { G \in SUBSET (FaultCandidates(t) \cap { f \in TreeFiles(t) : startswith(f, home \o sep) }) :
                           Cardinality(G) <= MaxFaulty } :
                faulty' = F
    /\ wkind' = "backup"
    /\ wpc' = "start"
    /\ UNCHANGED <<faultKind, archives, disk, dirs, busy, bvars, bseen, rvars,
                   rseen, wevents, wseen, jobvars>>

\* on_backup_home: return while current_worker runs, otherwise a new
\* WorkerThread with the backup closure.  The window starts one worker in a
\* behaviour.
on_backup_home ==
    /\ ~busy
    /\ wpc # "done" /\ b_jobs = 0 /\ r_jobs = 0
    /\ IF wpc # "none"
       THEN /\ rejected' = rejected \cup {"home"}
            /\ UNCHANGED <<envvars, archives, disk, dirs, busy, bvars, bseen, rvars, rseen,
                           wvars, wseen, b_jobs, r_jobs, overlapped>>
       ELSE StartBackupHome

\* The file a dialog returned and a new WorkerThread with the restore
\* closure.
StartRestoreTest ==
    /\ \E a \in DOMAIN archives :
          /\ archive_path' = a
          /\ \E F \in { G \in SUBSET MemberCandidates(archives[a].members) :
                           Cardinality(G) <= MaxFaulty } :
                rfaulty' = F
    /\ \E pre \in BOOLEAN :
          /\ preexisting' = pre
          /\ dirs' = IF pre THEN {target_dir} ELSE {}
          /\ disk' = IF pre THEN PreExisting(target_dir) ELSE <<>>
    /\ extract_dir' = target_dir
    /\ wkind' = "restore"
    /\ wpc' = "start"
    /\ UNCHANGED <<envvars, archives, busy, bvars, bseen, rpc, r_cancelled,
                   r_cancel_at, rfaultKind, members, ridx, rexit, revents,
                   rseen, wevents, wseen, jobvars>>

\* on_restore_test: the file dialog, then the same guard as on_backup_home.
on_restore_test ==
    /\ ~busy
    /\ wpc # "done" /\ b_jobs = 0 /\ r_jobs = 0
    /\ IF wpc # "none"
       THEN /\ rejected' = rejected \cup {"test"}
            /\ UNCHANGED <<envvars, archives, disk, dirs, busy, bvars, bseen, rvars, rseen,
                           wvars, wseen, b_jobs, r_jobs, overlapped>>
       ELSE StartRestoreTest

\* WorkerThread.run, its first statement: started_signal.emit(description)
WorkerStarted ==
    /\ wpc = "start"
    /\ wevents' = Append(wevents, Log("started", wkind))
    /\ wpc' = "job"
    /\ UNCHANGED <<envvars, archives, disk, dirs, busy, bvars, bseen, rvars,
                   rseen, wkind, wseen, jobvars>>

\* The closure job() of on_backup_home under the try of WorkerThread.run:
\* mkdir, tarfile.open(backup_path, "w:gz"), tar.add(str(home),
\* arcname="home"), close; then finished_signal, once.
WorkerBackupJob ==
    /\ wpc = "job" /\ wkind = "backup"
    /\ \/ \* BACKUP_DIR.mkdir or tarfile.open raises
          /\ \E e \in {"makedirs", "open"} : wevents' = WorkerExcept(wevents, e)
          /\ UNCHANGED archives
       \/ IF home \notin DOMAIN tree
          THEN /\ archives' = (backup_path :> Archive(TRUE, <<>>)) @@ archives
               /\ wevents' = WorkerExcept(wevents, home)
          ELSE LET r == AddTree(tree, faulty, home, "home")
               IN  /\ archives' = (backup_path :> Archive(TRUE, r.ms)) @@ archives
                   /\ \/ wevents' = IF r.ok THEN WorkerDone(wevents)
                                     ELSE WorkerExcept(wevents, "add")
                      \/ \* close raises
                         wevents' = WorkerExcept(wevents, "close")
    /\ wpc' = "done"
    /\ UNCHANGED <<envvars, disk, dirs, busy, bvars, bseen, rvars, rseen,
                   wkind, wseen, jobvars>>

\* The closure job() of on_restore_test: target_dir.mkdir(parents=True,
\* exist_ok=False), tarfile.open(backup_path, "r:gz"), tar.extractall.
WorkerRestoreJob ==
    /\ wpc = "job" /\ wkind = "restore"
    /\ IF extract_dir \in dirs
       THEN /\ wevents' = WorkerExcept(wevents, "makedirs")
            /\ UNCHANGED <<dirs, disk, jobvars>>
       ELSE IF ~archives[archive_path].valid
       THEN /\ wevents' = WorkerExcept(wevents, "open")
            /\ dirs' = dirs \cup {extract_dir}
            /\ UNCHANGED disk
       ELSE \E r \in ExtractAllOutcomes(disk, extract_dir, archives[archive_path].members, rfaulty) :
                /\ dirs' = dirs \cup {extract_dir}
                /\ disk' = r.disk
                /\ \/ wevents' = IF r.ok THEN WorkerDone(wevents)
                                  ELSE WorkerExcept(wevents, "extract")
                   \/ \* close raises
                      wevents' = WorkerExcept(wevents, "close")
    /\ wpc' = "done"
    /\ UNCHANGED <<envvars, archives, busy, bvars, bseen, rvars, rseen,
                   wkind, wseen, jobvars>>

\* The window handles the signals in the order of emission: _set_busy on
\* started_signal, _on_worker_finished (_set_idle) on finished_signal.
\* What went to stderr is no signal.
OnWorkerSignal ==
    /\ wseen < Len(wevents)
    /\ wseen' = wseen + 1
    /\ busy' = LET ev == wevents[wseen + 1]
               IN  IF ev.kind = "finished" THEN FALSE
                   ELSE IF ev.tag = "started" THEN TRUE
                   ELSE busy
    /\ UNCHANGED <<envvars, archives, disk, dirs, bvars, bseen, rvars, rseen, wvars, jobvars>>

Next ==
    \/ on_backup_home
    \/ on_restore_test
    \/ WorkerStarted
    \/ WorkerBackupJob
    \/ WorkerRestoreJob
    \/ OnWorkerSignal
    \/ on_full_backup_clicked
    \/ OnBackupFinished
    \/ BackupCancel
    \/ BackupBegin
    \/ BackupWalkDir
    \/ BackupCollect
    \/ BackupOpen
    \/ BackupCheck
    \/ BackupAdd
    \/ BackupClose
    \/ on_restore_test_clicked
    \/ OnRestoreFinished
    \/ RestoreCancel
    \/ RestoreBegin
    \/ RestoreCheck
    \/ RestoreExtract
    \/ RestoreClose

Spec == Init /\ [][Next]_vars

\* The steps of the two worker threads.  A started QThread is scheduled,
\* and each filesystem call of a step returns.
BackupStep ==
    BackupBegin \/ BackupWalkDir \/ BackupCollect \/ BackupOpen \/ BackupCheck
    \/ BackupAdd \/ BackupClose

RestoreStep ==
    RestoreBegin \/ RestoreCheck \/ RestoreExtract \/ RestoreClose

LiveSpec ==
    /\ Init /\ [][Next]_vars
    /\ WF_vars(BackupStep) /\ WF_vars(RestoreStep)

(***************************************************************************)
(* Vocabulary of the properties.                                           *)
(***************************************************************************)
Last(s) == s[Len(s)]

\* How many times a job emitted the percentage 100.
Count100(evs) == Cardinality({ i \in 1..Len(Percents(evs)) : Percents(evs)[i] = 100 })

\* The errors raised outside the item loop: creating a directory, opening
\* the archive, closing it.
JobLevelErrors == {"makedirs", "open", "close"}

\* The job logged an error raised outside its item loop.
HasJobError(evs) ==
    \E i \in 1..Len(evs) :
        evs[i].kind = "log" /\ evs[i].tag = "critical" /\ evs[i].item \in JobLevelErrors

\* The skip log lines of a job.
Skips(evs) == { i \in 1..Len(evs) : evs[i].kind = "log" /\ startswith(evs[i].tag, "skip-") }

BackupCompleted == \E i \in 1..Len(Results(bevents)) : Results(bevents)[i].ok
RestoreCompleted == \E i \in 1..Len(Results(revents)) : Results(revents)[i].ok

\* "Equal to or nested under", on path components.
IsUnder(p, ex) ==
    LET a == Components(ex)
        b == Components(p)
    IN  Len(a) <= Len(b) /\ SubSeq(b, 1, Len(a)) = a

StrictlyUnder(p, ex) == IsUnder(p, ex) /\ Len(Components(p)) > Len(Components(ex))

UnderExcludedRoot(p) == \E ex \in Range(EXCLUDED_DIRS) : IsUnder(p, ex)
BeneathExcludedRoot(p) == \E ex \in Range(EXCLUDED_DIRS) : StrictlyUnder(p, ex)

\* The walk has ended by exhausting os.walk.
EnumDone == visited # <<>> /\ walk = <<>> /\ bpc \in {"total", "check", "add", "close", "done"}

\* The last step was a step of the walk: only then do all_files and visited
\* differ from what they were.
WalkJustStepped == bpc \in {"walk", "collect", "total"} \/ (bpc = "done" /\ bidx = 0)

\* The path of a file relative to the backup root.
Rel(f) == SubSeq(f, Len(root) + 1, Len(f))

\* n is f without its leading separators, all of them.
StripsTo(f, n) ==
    /\ ~startswith(n, sep)
    /\ \E k \in 0..Len(f) :
          /\ \A j \in 1..k : SubSeq(f, j, j) = sep
          /\ n = SubSeq(f, k + 1, Len(f))

\* The enumerated files whose add does not raise, in order.
Addable == SelectSeq(all_files, LAMBDA f : f \notin faulty)

\* cancel() came with k of n items processed, 0 < k < n.
MidJob(at) == 0 < at.k /\ at.k < at.n

\* cancel() came after the worker had polled the flag for the last item.
PastLastCheckpoint(at) == at.past /\ at.k = at.n - 1

(***************************************************************************)
(* C1: every started job emits finished(success, message) exactly once,    *)
(* whatever is cancelled, skipped or raised: a job that has ended emitted  *)
(* one terminal result, a running job at most one.                         *)
(***************************************************************************)
C1_FinishedExactlyOnce ==
    /\ Len(Results(bevents)) <= 1
    /\ Len(Results(revents)) <= 1
    /\ Len(Results(wevents)) <= 1
    /\ bpc = "done" => Len(Results(bevents)) = 1
    /\ rpc = "done" => Len(Results(revents)) = 1
    /\ wpc = "done" => Len(Results(wevents)) = 1

CancelledOutcome(evs, cancelMsg, errorMsg) ==
    /\ Results(evs) # <<>>
    /\ Results(evs)[1] = Finished(FALSE, cancelMsg)
    /\ \A i \in 1..Len(Results(evs)) : ~Results(evs)[i].ok
    /\ Len(Results(evs)) > 1 =>
          /\ Results(evs) = << Finished(FALSE, cancelMsg), Failure(errorMsg, "close") >>
          /\ HasJobError(evs)

NonDecreasing(s) == \A i \in 1..Len(s) - 1 : s[i] <= s[i + 1]

C3_ProgressMonotone ==
    /\ NonDecreasing(Percents(bevents))
    /\ NonDecreasing(Percents(revents))

\* A completed backup that emitted at two cadence points before its last
\* item.
C3_Witness ==
    /\ bpc = "done" /\ BackupCompleted
    /\ Len(Percents(bevents)) >= 5
    /\ Percents(bevents)[2] < Percents(bevents)[3]
    /\ Percents(bevents)[3] < Percents(bevents)[4]

(***************************************************************************)
(* C4: a job that ends Completed emitted 100 last and exactly once.        *)
(***************************************************************************)
C4_HundredExactlyOnce ==
    /\ BackupCompleted => Last(Percents(bevents)) = 100 /\ Count100(bevents) = 1
    /\ RestoreCompleted => Last(Percents(revents)) = 100 /\ Count100(revents) = 1

(***************************************************************************)
(* C5: with no cancellation requested and nothing raised outside the item  *)
(* loop, a job over at least one item attempts every item and ends         *)
(* Completed, whichever of its items fail.                                 *)
(***************************************************************************)
C5_ItemFailuresDoNotAbort ==
    /\ (bpc = "done" /\ ~b_cancelled /\ Len(all_files) > 0 /\ ~HasJobError(bevents)) =>
          /\ Results(bevents) = << Finished(TRUE, MSG_BACKUP_DONE) >>
          /\ BProcessed = Len(all_files)
          /\ added + Cardinality(Skips(bevents)) = Len(all_files)
          /\ Cardinality(Skips(bevents)) = Cardinality(faulty \cap Range(all_files))
    /\ (rpc = "done" /\ ~r_cancelled /\ Len(members) > 0 /\ ~HasJobError(revents)) =>
          /\ Results(revents) = << Finished(TRUE, MSG_RESTORE_DONE) >>
          /\ RProcessed = Len(members)
          /\ \A n \in rfaulty : \E i \in Skips(revents) : revents[i].item = n
          /\ Cardinality(Skips(revents)) <= Len(members)

\* A backup two of whose files failed, the first of them not the last
\* file, has ended Completed.
C5_Witness ==
    /\ bpc = "done" /\ ~b_cancelled /\ BackupCompleted
    /\ Cardinality(Skips(bevents)) = 2
    /\ all_files[1] \in faulty
    /\ added > 0

(***************************************************************************)
(* C6: a backup whose enumeration ends with zero files ends Failed with    *)
(* the nothing-to-back-up message and never creates its archive.           *)
(***************************************************************************)
C6_EmptyBackupFails ==
    (EnumDone /\ Len(all_files) = 0) =>
        /\ bidx = 0 /\ added = 0
        /\ b_jobs = 1 => dest_file \notin DOMAIN archives
        /\ bpc \in {"total", "done"}
        /\ bpc = "done" => Results(bevents) = << Finished(FALSE, MSG_NOTHING_TO_BACKUP) >>

\* The backup of a tree whose files all lie under excluded roots has failed.
C6_Witness ==
    /\ bpc = "done" /\ EnumDone /\ Len(all_files) = 0
    /\ Len(visited) > 1
    /\ Results(bevents) = << Finished(FALSE, MSG_NOTHING_TO_BACKUP) >>

(***************************************************************************)
(* C7: a restore whose destination directory is there when the job starts  *)
(* ends Failed, extracts nothing and leaves the directory as it was, in    *)
(* RestoreWorker and in the restore job of the packaged variant.  For      *)
(* RestoreWorker it is stated for the executions in which nothing is       *)
(* cancelled or raised outside the item loop.                              *)
(***************************************************************************)
C7_ExistingDestinationFails ==
    /\ (rpc = "done" /\ preexisting /\ ~r_cancelled /\ ~HasJobError(revents)) =>
          /\ Results(revents) # <<>>
          /\ ~RestoreCompleted
          /\ disk = PreExisting(extract_dir)
    /\ (wpc = "done" /\ wkind = "restore" /\ preexisting) =>
          /\ Results(wevents) = << Failure(MSG_WORKER_ERROR, "makedirs") >>
          /\ disk = PreExisting(extract_dir)

C9_MemberNamesRelative ==
    /\ (bidx >= 1 /\ dest_file \in DOMAIN archives) =>
          LET ms == archives[dest_file].members
          IN  /\ Len(ms) <= Len(Addable)
              /\ \A i \in 1..Len(ms) :
                    /\ ~startswith(ms[i].name, sep)
                    /\ StripsTo(Addable[i], ms[i].name)
    /\ backup_path \in DOMAIN archives =>
          \A i \in 1..Len(archives[backup_path].members) :
              ~startswith(archives[backup_path].members[i].name, sep)

\* A backup has added files of nested directories.
C9_Witness ==
    /\ bpc = "done" /\ BackupCompleted
    /\ dest_file \in DOMAIN archives
    /\ \E i \in 1..Len(archives[dest_file].members) :
          archives[dest_file].members[i].name = "home/b"

\* A backup and the restore of its archive into a fresh directory, with no
\* cancellation, no failing item and nothing raised, over a tree that has
\* no file under an excluded root.
CleanBackup ==
    /\ b_jobs = 1 /\ r_jobs = 1
    /\ bpc = "done" /\ ~b_cancelled /\ ~HasJobError(bevents)
    /\ faulty = {}
    /\ \A f \in TreeFiles(tree) : ~BeneathExcludedRoot(f)

CleanRestore ==
    /\ rpc = "done" /\ ~r_cancelled /\ ~HasJobError(revents)
    /\ archive_path = dest_file /\ ~preexisting
    /\ rfaulty = {}

(***************************************************************************)
(* C10: backing up a tree of N accessible files, none under an excluded    *)
(* root, and restoring the resulting archive into a fresh directory D      *)
(* yields exactly N files, each at D joined with its path relative to the  *)
(* backup root and with the same content, and both jobs end Completed.     *)
(***************************************************************************)
C10_RoundTrip ==
    (CleanBackup /\ CleanRestore) =>
        /\ Results(bevents) = << Finished(TRUE, MSG_BACKUP_DONE) >>
        /\ Results(revents) = << Finished(TRUE, MSG_RESTORE_DONE) >>
        /\ DOMAIN disk = { join(extract_dir, Rel(f)) : f \in TreeFiles(tree) }
        /\ Cardinality(DOMAIN disk) = Cardinality(TreeFiles(tree))
        /\ \A f \in TreeFiles(tree) : disk[join(extract_dir, Rel(f))] = FileContent(f)

\* The scenario tree has gone through backup and restore.
C10_Witness ==
    /\ CleanBackup /\ CleanRestore
    /\ tree = TreeScenario
    /\ disk = ( join(extract_dir, "a.txt") :> FileContent("/a.txt") )
               @@ ( join(extract_dir, "sub/b.txt") :> FileContent("/sub/b.txt") )

(***************************************************************************)
(* C11: a restore never writes outside its destination directory: every    *)
(* file on the disk once a restore has started lies under extract_dir,     *)
(* whatever the member names of the archive are.                           *)
(***************************************************************************)
C11_NeverWritesOutside ==
    extract_dir # "" => \A p \in DOMAIN disk : LiesUnder(p, extract_dir)

(***************************************************************************)
(* C12: at most one backup worker and at most one restore worker run at    *)
(* any time: a start request handled while a worker of the same kind runs  *)
(* is rejected and no worker is created or started.                        *)
(***************************************************************************)
C12_SingleFlight == overlapped = {}

\* A click on the restore button was rejected while the first restore
\* worker, whose result has been handled, was still closing its archive.
C12_Witness ==
    /\ "restore" \in rejected
    /\ r_jobs = 1 /\ RestoreRunning

\* Both workers run and neither has emitted a result.
BothRunning ==
    /\ BackupRunning /\ RestoreRunning
    /\ Results(bevents) = <<>> /\ Results(revents) = <<>>

C14_NeverOverwritten ==
    [][(bidx = 0 /\ bidx' = 1) => dest_file \notin DOMAIN archives]_vars

\* Every failure result of a job carries the text of the error and follows
\* directly the log lines that name the same error; every such log line is
\* followed by its result.
Traced(evs, msg, lines) ==
    \A i \in 1..Len(evs) :
        /\ (evs[i].kind = "finished" /\ evs[i].tag = msg) =>
              /\ ~evs[i].ok
              /\ i > Len(lines)
              /\ \A k \in 1..Len(lines) :
                    evs[i - Len(lines) + k - 1] = Log(lines[k], evs[i].item)
        /\ (evs[i].kind = "log" /\ evs[i].tag = lines[1]) =>
              /\ i + Len(lines) <= Len(evs)
              /\ evs[i + Len(lines)] = Failure(msg, evs[i].item)

(***************************************************************************)
(* C15: an error that escapes the job body is caught in run(): the error   *)
(* and its trace are logged, then a result with success false whose        *)
(* message holds the error's text is emitted, and the thread ends.         *)
(***************************************************************************)
C15_ErrorsCaughtAtBoundary ==
    /\ Traced(bevents, MSG_BACKUP_ERROR, <<"critical", "traceback">>)
    /\ Traced(revents, MSG_RESTORE_ERROR, <<"critical", "traceback">>)
    /\ Traced(wevents, MSG_WORKER_ERROR, <<"stderr-traceback">>)
    /\ (bpc = "done" /\ HasJobError(bevents)) => Last(Results(bevents)).tag = MSG_BACKUP_ERROR
    /\ (rpc = "done" /\ HasJobError(revents)) => Last(Results(revents)).tag = MSG_RESTORE_ERROR

\* A backup whose archive could not be opened and a restore whose archive
\* could not be read have ended.
C15_Witness ==
    /\ bpc = "done"
    /\ Results(bevents) = << Failure(MSG_BACKUP_ERROR, "open") >>
    /\ rpc = "done"
    /\ Results(revents) = << Failure(MSG_RESTORE_ERROR, "open") >>

(***************************************************************************)
(* C16: the restore of an archive with no member ends Failed with the      *)
(* empty-archive message as its only result, extracts nothing and emits    *)
(* no progress of 100.                                                     *)
(***************************************************************************)
C16_EmptyArchiveFails ==
    (rpc = "done" /\ rexit = "return" /\ members = <<>>) =>
        /\ Results(revents) = << Finished(FALSE, MSG_ARCHIVE_EMPTY) >>
        /\ disk = (IF preexisting THEN PreExisting(extract_dir) ELSE <<>>)
        /\ \A i \in 1..Len(Percents(revents)) : Percents(revents)[i] # 100

\* With the flag set no directory is enumerated and no item begins: a
\* checkpoint that is reached goes to the exit, and an item is worked on
\* only if cancel() came while it was in flight.
NoItemBeginsAfterCheckpoint ==
    /\ (b_cancelled /\ bpc = "walk") =>
          /\ all_files' = all_files /\ walk' = walk
          /\ bpc' = "done" => Results(bevents') = << Finished(FALSE, MSG_BACKUP_CANCELLED) >>
    /\ (b_cancelled /\ bpc = "check") => (bpc' # "add" /\ archives' = archives)
    /\ (b_cancelled /\ bpc = "add") => (b_cancel_at.past /\ b_cancel_at.k = bidx - 1)
    /\ (r_cancelled /\ rpc = "check") => (rpc' # "extract" /\ disk' = disk)
    /\ (r_cancelled /\ rpc = "extract") => (r_cancel_at.past /\ r_cancel_at.k = ridx - 1)

(***************************************************************************)
(* C17: once the flag of a running job is set, no directory, file or       *)
(* member begins processing after the next checkpoint is reached, at most  *)
(* the item in flight completes, and the job ends with Cancelled as its    *)
(* result.                                                                 *)
(***************************************************************************)
C17_CancelObservedAtNextCheckpoint ==
    [][ /\ NoItemBeginsAfterCheckpoint
        /\ (bpc' = "done" /\ bexit' = "return") =>
              Results(bevents') = << Finished(FALSE, MSG_BACKUP_CANCELLED) >>
        /\ (rpc' = "done" /\ rexit' = "return" /\ members' # <<>>) =>
              Results(revents') = << Finished(FALSE, MSG_RESTORE_CANCELLED) >>
      ]_vars

(***************************************************************************)
(* C18: every started job over a finite tree or archive, whose filesystem  *)
(* calls all return, ends and has emitted a terminal result.               *)
(***************************************************************************)
C18_StartedJobsEnd ==
    /\ (bpc = "start") ~> (bpc = "done" /\ Results(bevents) # <<>>)
    /\ (rpc = "start") ~> (rpc = "done" /\ Results(revents) # <<>>)

\* A backup and a restore have ended, each with a result that reports
\* success.
C18_Witness ==
    /\ bpc = "done" /\ Results(bevents) # <<>> /\ Last(Results(bevents)).ok
    /\ rpc = "done" /\ Results(revents) # <<>> /\ Last(Results(revents)).ok

(***************************************************************************)
(* C19: a directory is excluded exactly when its path equals an excluded   *)
(* root or continues it after a separator, that is when the components of  *)
(* the root are the first components of the path; a directory whose name   *)
(* only begins with the characters of a root (/tmpx for /tmp) is walked    *)
(* and its files are enumerated.                                           *)
(***************************************************************************)
C19_WholeComponentsOnly ==
    /\ \A i \in 1..Len(visited) : is_excluded(visited[i]) <=> UnderExcludedRoot(visited[i])
    /\ (EnumDone /\ WalkJustStepped) =>
          \A f \in TreeFiles(tree) : f \in Range(all_files) <=> ~UnderExcludedRoot(f)

\* The walk of the mixed tree has ended: /tmp was excluded, /tmpx was
\* walked and its file collected.
C19_Witness ==
    /\ EnumDone /\ tree = TreeMixed
    /\ "/tmp" \in Range(visited) /\ is_excluded("/tmp")
    /\ "/tmpx" \in Range(visited) /\ ~is_excluded("/tmpx")
    /\ "/tmpx/x" \in Range(all_files) /\ "/tmp/t" \notin Range(all_files)

\* The events a step has added to those of a job.
Added(before, after) ==
    IF Len(after) > Len(before) THEN SubSeq(after, Len(before) + 1, Len(after)) ELSE <<>>

\* The processed count is at a cadence point.
AtCadence(processed, total) == processed % PROGRESS_EVERY = 0 \/ processed = total

(***************************************************************************)
(* C20: a job emits a progress percentage only when its processed count is *)
(* a multiple of 50 or equals the total: every step that emits one ends    *)
(* with the count at such a point.                                         *)
(***************************************************************************)
C20_ProgressOnlyAtCadence ==
    [][ /\ (\E i \in 1..Len(Added(bevents, bevents')) : Added(bevents, bevents')[i].kind = "progress")
              => AtCadence(BProcessed', Len(all_files'))
        /\ (\E i \in 1..Len(Added(revents, revents')) : Added(revents, revents')[i].kind = "progress")
              => AtCadence(RProcessed', Len(members'))
      ]_vars

\* The backup of the largest tree has emitted after its 50th file, which is
\* not the last.
C20_Witness ==
    /\ Len(all_files) = MaxFlat /\ bpc = "check" /\ bidx = PROGRESS_EVERY + 1
    /\ Last(bevents) = Progress(Percent(PROGRESS_EVERY, MaxFlat))

\* The percentages among the events a step has added.
AddedPercents(before, after) ==
    { Added(before, after)[i].pct :
        i \in { j \in 1..Len(Added(before, after)) : Added(before, after)[j].kind = "progress" } }

\* p is the whole part of idx * 100 / total, within 0..100, and 100 only
\* for the last item.
IsFloorPercent(p, idx, total) ==
    /\ p * total <= idx * 100 /\ idx * 100 < (p + 1) * total
    /\ p \in 0..100
    /\ p = 100 => idx = total

(***************************************************************************)
(* C21: every percentage emitted inside the item loop, after item idx of   *)
(* total, is floor(idx * 100 / total), lies in 0..100 and is 100 only when *)
(* idx = total.                                                            *)
(***************************************************************************)
C21_LoopPercentIsFloor ==
    [][ /\ bpc = "add" =>
              \A p \in AddedPercents(bevents, bevents') : IsFloorPercent(p, bidx, Len(all_files))
        /\ rpc = "extract" =>
              \A p \in AddedPercents(revents, revents') : IsFloorPercent(p, ridx, Len(members))
      ]_vars

\* The restore of the largest archive has emitted after its 100th member a
\* percentage that is not a whole quotient.
C21_Witness ==
    /\ Len(members) = MaxFlat /\ rpc = "check" /\ ridx = 2 * PROGRESS_EVERY + 1
    /\ Last(revents).kind = "progress"
    /\ Last(revents).pct * MaxFlat < 2 * PROGRESS_EVERY * 100

\* The count a backup reported in its closing log line.
ReportedAdded(evs) ==
    { evs[i].item : i \in { j \in 1..Len(evs) : evs[j].kind = "log" /\ evs[j].tag = "done" } }

(***************************************************************************)
(* C22: on a Completed backup the reported count of added files is the     *)
(* number of enumerated files whose add raised no error; no skipped file   *)
(* is counted, and added plus skipped is the enumerated total.             *)
(***************************************************************************)
C22_AddedCountsSuccesses ==
    BackupCompleted =>
        /\ ReportedAdded(bevents) = { ToString(Len(Addable)) }
        /\ added = Len(Addable)
        /\ added + Cardinality(Skips(bevents)) = Len(all_files)
        /\ \A i \in Skips(bevents) : bevents[i].item \in faulty

\* A backup one of whose files was skipped has ended Completed and reported
\* one file fewer than it enumerated.
C22_Witness ==
    /\ BackupCompleted
    /\ Cardinality(Skips(bevents)) = 1
    /\ Len(all_files) >= 2
    /\ ReportedAdded(bevents) = { ToString(Len(all_files) - 1) }

\* The items named by the skip log lines a step has added, one entry for
\* each line.
AddedSkips(before, after) ==
    LET new == Added(before, after)
    IN  SelectSeq([i \in 1..Len(new) |-> IF new[i].kind = "log" /\ startswith(new[i].tag, "skip-")
                                           THEN new[i].item ELSE ""],
                  LAMBDA x : x # "")

(***************************************************************************)
(* C23: each file or member whose add or extract raises produces exactly   *)
(* one skip log line naming it, emitted in the iteration of that item and  *)
(* so before the next item is attempted; an item processed without error   *)
(* produces none.  An iteration of the extract loop that logs no skip line *)
(* has written its member, one that logs a skip line has written nothing.  *)
(***************************************************************************)
C23_EveryItemFailureLogged ==
    [][ /\ (bpc = "add" /\ bpc' # "add") =>
              AddedSkips(bevents, bevents') =
                  (IF all_files[bidx] \in faulty THEN << all_files[bidx] >> ELSE <<>>)
        /\ (bpc # "add" \/ bpc' = "add") => AddedSkips(bevents, bevents') = <<>>
        /\ (rpc = "extract" /\ rpc' # "extract") =>
              /\ members[ridx].name \in rfaulty =>
                    AddedSkips(revents, revents') = << members[ridx].name >>
              /\ AddedSkips(revents, revents') \in { <<>>, << members[ridx].name >> }
              /\ AddedSkips(revents, revents') = <<>> =>
                    \E q \in DOMAIN disk' : disk'[q] = members[ridx].content
              /\ AddedSkips(revents, revents') # <<>> => disk' = disk
        /\ (rpc # "extract" \/ rpc' = "extract") => AddedSkips(revents, revents') = <<>>
      ]_vars

\* The first member of a restore failed with an error that is no
\* PermissionError, its skip line is the last event, and the second member
\* is about to be attempted.
C23_Witness ==
    /\ rpc = "check" /\ ridx = 2
    /\ members[1].name \in rfaulty /\ rfaultKind = "other"
    /\ Last(revents) = Log("skip-error", members[1].name)

\* No event of a job follows a terminal result of it.
ResultIsLast(evs) == \A i \in 1..Len(evs) : evs[i].kind = "finished" => i = Len(evs)

(***************************************************************************)
(* C24: the terminal result is the last event of a job: no progress, log   *)
(* or result event follows it, in every execution, cancellation inside the *)
(* open-archive block included.                                            *)
(***************************************************************************)
C24_ResultIsLastEvent ==
    /\ ResultIsLast(bevents)
    /\ ResultIsLast(revents)

\* The items named by the skip log lines of a job, in the order of the
\* lines.
SkippedItems(evs) ==
    LET lines == SelectSeq(evs, LAMBDA e : e.kind = "log" /\ startswith(e.tag, "skip-"))
    IN  [i \in 1..Len(lines) |-> lines[i].item]

\* What the attempts of a backup have left: the files that failed, each in
\* one skip line, and the files that did not, each in one member, both in
\* enumeration order and together the files processed so far.
BackupAttemptsOnceInOrder ==
    LET tried == SubSeq(all_files, 1, BProcessed)
        failed == SelectSeq(tried, LAMBDA f : f \in faulty)
        stored == SelectSeq(tried, LAMBDA f : f \notin faulty)
        ms == archives[dest_file].members
    IN  /\ SkippedItems(bevents) = failed
        /\ [i \in 1..Len(ms) |-> ms[i].content] = [i \in 1..Len(stored) |-> FileContent(stored[i])]

\* The same for a restore: the members skipped, each in one skip line and
\* in listing order; every other member tried is on the disk, and no member
\* beyond those tried is.
RestoreAttemptsOnceInOrder ==
    LET tried == SubSeq(members, 1, RProcessed)
        skipped == Range(SkippedItems(revents))
        failed == SelectSeq(tried, LAMBDA m : m.name \in skipped)
        onDisk(m) == \E q \in DOMAIN disk : disk[q] = m.content
    IN  /\ SkippedItems(revents) = [i \in 1..Len(failed) |-> failed[i].name]
        /\ \A i \in 1..Len(members) :
              /\ (i <= RProcessed /\ members[i].name \in rfaulty) => members[i].name \in skipped
              /\ onDisk(members[i]) <=> (i <= RProcessed /\ members[i].name \notin skipped)

(***************************************************************************)
(* C25: no retries: within a job each enumerated file or listed member is  *)
(* attempted at most once, in enumeration or listing order, a failed item  *)
(* is never attempted again, and on a Completed job every item was         *)
(* attempted exactly once.                                                 *)
(***************************************************************************)
C25_NoRetries ==
    /\ bidx >= 1 => BackupAttemptsOnceInOrder
    /\ BackupCompleted => BProcessed = Len(all_files)
    /\ ridx >= 1 => RestoreAttemptsOnceInOrder
    /\ RestoreCompleted => RProcessed = Len(members)

\* A backup whose first file failed has ended Completed with that file in
\* one skip line and every other file in the archive.
C25_Witness ==
    /\ BackupCompleted /\ Len(all_files) >= 2
    /\ SkippedItems(bevents) = << all_files[1] >>
    /\ Len(archives[dest_file].members) = Len(all_files) - 1

\* cancel() came while the backup was enumerating.
CancelledDuringEnumeration == b_cancel_at.pc \in {"walk", "collect"}

\* The backup aborts in the enumeration: nothing is archived, the archive
\* is not created, and the result is Cancelled.
AbortsEarly ==
    /\ bidx = 0 /\ added = 0
    /\ dest_file \notin DOMAIN archives
    /\ bpc = "done" => Results(bevents) = << Finished(FALSE, MSG_BACKUP_CANCELLED) >>

(***************************************************************************)
(* C26, as claimed: a backup cancelled during enumeration ends Cancelled,  *)
(* archives no file and never creates the destination archive.             *)
(***************************************************************************)
C26_EnumerationCancelAborts ==
    CancelledDuringEnumeration => AbortsEarly

(***************************************************************************)
(* C26, amended: a backup cancelled during enumeration while os.walk has   *)
(* still a directory to yield ends Cancelled, archives no file and never   *)
(* creates the destination archive.  (With the last directory already      *)
(* yielded there is no directory checkpoint left.)                         *)
(***************************************************************************)
C26_CancelBeforeLastDirectory ==
    (CancelledDuringEnumeration /\ b_cancel_at.left > 0) => AbortsEarly

\* A backup cancelled while it collected the files of its first directory
\* has ended Cancelled at its second, with files enumerated and no archive.
C26_Witness ==
    /\ bpc = "done" /\ b_cancel_at.pc = "collect" /\ b_cancel_at.left > 0
    /\ Len(visited) = 2 /\ all_files # <<>>
    /\ Results(bevents) = << Finished(FALSE, MSG_BACKUP_CANCELLED) >>
    /\ dest_file \notin DOMAIN archives

\* The symbolic links found in the directories of the tree that are not
\* under an excluded root, by full path.
LinksFound ==
    UNION { { join(d, n) : n \in tree[d].links } : d \in { e \in DOMAIN tree : ~UnderExcludedRoot(e) } }

(***************************************************************************)
(* C27: every symbolic link found in a non-excluded directory of the       *)
(* walked tree, whether it points to a file or to a directory, is          *)
(* enumerated and so offered to the archive writer as one item.            *)
(***************************************************************************)
C27_SymlinksEnumerated ==
    (EnumDone /\ WalkJustStepped) =>
        \A l \in LinksFound :
            Cardinality({ i \in 1..Len(all_files) : all_files[i] = l }) = 1

\* What the worker threads write: their positions, their events, and what
\* they build.
BackupWorkerState == <<bpc, bevents, walk, visited, all_files, bidx, added, bexit, archives>>
RestoreWorkerState == <<rpc, revents, members, ridx, rexit, disk, dirs>>

(***************************************************************************)
(* C28: the cancellation flag of a job is written only by cancel() and     *)
(* only read by the worker: it is False in a new job, a step that changes  *)
(* it sets it and is no step of the worker and emits no event, also when   *)
(* the job has already ended; once set it stays set for the life of the    *)
(* job.                                                                    *)
(***************************************************************************)
C28_FlagWrittenOnlyByCancel ==
    [][ /\ b_jobs' # b_jobs => ~b_cancelled'
        /\ b_jobs' = b_jobs =>
              /\ b_cancelled => b_cancelled'
              /\ b_cancelled' # b_cancelled => UNCHANGED BackupWorkerState
        /\ r_jobs' # r_jobs => ~r_cancelled'
        /\ r_jobs' = r_jobs =>
              /\ r_cancelled => r_cancelled'
              /\ r_cancelled' # r_cancelled => UNCHANGED RestoreWorkerState
      ]_vars

\* cancel() was called on a backup that had ended Completed, and the
\* success result is still its last event.
C28_Witness ==
    /\ b_cancelled /\ b_cancel_at.pc = "done"
    /\ bpc = "done" /\ Last(bevents) = Finished(TRUE, MSG_BACKUP_DONE)

\* cancel() came after the worker had polled the flag for the last item:
\* while the last item was in work, or after the loop.
AfterLastCheckpoint(at) ==
    \/ PastLastCheckpoint(at)
    \/ at.pc = "close" /\ at.k = at.n /\ at.n > 0

(***************************************************************************)
(* C29: a cancellation request that arrives after the worker has passed    *)
(* the checkpoint of the last item is not honoured: the flag is set, and   *)
(* the job still emits 100 and ends Completed with success true.  Stated   *)
(* for the executions in which nothing is raised outside the item loop     *)
(* (an archive that cannot be closed makes the job Failed).                *)
(***************************************************************************)
C29_LateCancelNotHonoured ==
    /\ (bpc = "done" /\ AfterLastCheckpoint(b_cancel_at) /\ ~HasJobError(bevents)) =>
          /\ b_cancelled
          /\ Last(bevents) = Finished(TRUE, MSG_BACKUP_DONE)
          /\ Len(Results(bevents)) = 1
          /\ Last(Percents(bevents)) = 100
    /\ (rpc = "done" /\ AfterLastCheckpoint(r_cancel_at) /\ ~HasJobError(revents)) =>
          /\ r_cancelled
          /\ Last(revents) = Finished(TRUE, MSG_RESTORE_DONE)
          /\ Len(Results(revents)) = 1
          /\ Last(Percents(revents)) = 100

\* A backup of several files whose flag was set while its last file was
\* being added has ended Completed.
C29_Witness ==
    /\ bpc = "done" /\ b_cancelled
    /\ PastLastCheckpoint(b_cancel_at) /\ b_cancel_at.n > 1
    /\ Last(bevents) = Finished(TRUE, MSG_BACKUP_DONE)

\* A restore whose flag was set before it opened its archive has read an
\* archive with no member and ended.
CancelledRestoreOfEmpty ==
    rpc = "done" /\ r_cancel_at.pc = "start" /\ rexit = "return" /\ members = <<>>

\* A backup whose flag was set after os.walk yielded its last directory has
\* found no file and ended.
CancelledBackupOfNothing ==
    /\ bpc = "done" /\ EnumDone /\ Len(all_files) = 0
    /\ b_cancel_at.pc \in {"collect", "total"} /\ b_cancel_at.left = 0

(***************************************************************************)
(* C30: job-level precondition failures take precedence over cancellation: *)
(* a restore whose flag is already set when it reads an archive with zero  *)
(* members ends Failed with the empty-archive result, not Cancelled, and a *)
(* backup whose flag is set after the last enumerated directory, with zero *)
(* files found, ends Failed with the nothing-to-back-up result, not        *)
(* Cancelled.                                                              *)
(***************************************************************************)
C30_PreconditionBeforeCancel ==
    /\ CancelledRestoreOfEmpty => Results(revents) = << Finished(FALSE, MSG_ARCHIVE_EMPTY) >>
    /\ CancelledBackupOfNothing => Results(bevents) = << Finished(FALSE, MSG_NOTHING_TO_BACKUP) >>

\* A backup has attempted every enumerated file, at least one, and every
\* add raised; nothing was raised outside the item loop.
AllAddsFailed ==
    /\ bpc = "done" /\ ~HasJobError(bevents)
    /\ Len(all_files) >= 1 /\ BProcessed = Len(all_files)
    /\ Range(all_files) \subseteq faulty

\* The restore has read the archive that backup left and has ended.
RestoredItsArchive ==
    /\ r_jobs >= 1 /\ archive_path = dest_file
    /\ rpc = "done" /\ rexit = "return"

(***************************************************************************)
(* C31: a backup in which every enumerated file fails to be added          *)
(* (total >= 1, added = 0) still ends Completed with success true and      *)
(* progress 100 and leaves an archive with zero members; the restore of    *)
(* that archive ends Failed with the empty-archive message.                *)
(***************************************************************************)
C31_AllSkippedStillCompletes ==
    /\ AllAddsFailed =>
          /\ Results(bevents) = << Finished(TRUE, MSG_BACKUP_DONE) >>
          /\ Last(Percents(bevents)) = 100
          /\ added = 0
          /\ archives[dest_file] = Archive(TRUE, <<>>)
    /\ (AllAddsFailed /\ RestoredItsArchive) =>
          Results(revents) = << Finished(FALSE, MSG_ARCHIVE_EMPTY) >>

\* The backup observed its flag at a checkpoint of the add loop and emitted
\* the Cancelled result.
CancelledWhileArchiving ==
    /\ bexit = "return" /\ bidx >= 1
    /\ Results(bevents) # <<>>
    /\ Results(bevents)[1] = Finished(FALSE, MSG_BACKUP_CANCELLED)

(***************************************************************************)
(* C32: a backup cancelled during the archival phase does not remove its   *)
(* output: after the Cancelled result the destination archive is on disk   *)
(* and holds the members added before the cancellation was observed, that  *)
(* is the files processed so far whose add did not raise, in order.        *)
(***************************************************************************)
C32_CancelledArchiveRemains ==
    CancelledWhileArchiving =>
        /\ dest_file \in DOMAIN archives
        /\ Len(archives[dest_file].members) = added
        /\ BProcessed = bidx - 1
        /\ BackupAttemptsOnceInOrder

\* A backup was cancelled after it had added files: it has ended, and its
\* archive holds them.
C32_Witness ==
    /\ bpc = "done" /\ CancelledWhileArchiving
    /\ added >= 1
    /\ Len(archives[dest_file].members) = added
    /\ added < Len(all_files)

\* Creating the destination directory raised.
MakedirsFailed(evs) ==
    \E i \in 1..Len(evs) : evs[i] = Log("critical", "makedirs")

(***************************************************************************)
(* C33: a restore creates its destination directory before it opens or     *)
(* validates the archive: once the directory has been created, at every    *)
(* later point of the job and after every terminal outcome (Failed because *)
(* the archive cannot be opened, is invalid or is empty, Cancelled,        *)
(* Completed) the directory exists.  The one outcome without it is the     *)
(* failure to create it.                                                   *)
(***************************************************************************)
C33_DestinationDirCreatedFirst ==
    /\ (r_jobs >= 1 /\ rpc # "start" /\ ~MakedirsFailed(revents)) => extract_dir \in dirs
    /\ (r_jobs >= 1 /\ rpc = "done" /\ MakedirsFailed(revents)) =>
          Results(revents) = << Failure(MSG_RESTORE_ERROR, "makedirs") >>

\* The restore of a file that is no archive has ended Failed, and its
\* destination directory, which was not there before, exists and is empty.
C33_Witness ==
    /\ rpc = "done" /\ ~preexisting
    /\ Last(revents) = Failure(MSG_RESTORE_ERROR, "open")
    /\ extract_dir \in dirs /\ disk = <<>>

\* A worker of the window was started and no result of it has been handled
\* by the window yet.
BackupUndelivered == bpc # "none" /\ bseen < 1

RestoreUndelivered == rpc # "none" /\ rseen < 1

\* The WorkerThread of the packaged window was started and its
\* finished_signal has not been handled.
WorkerUndelivered ==
    /\ wpc # "none"
    /\ \A i \in 1..wseen : wevents[i].kind # "finished"

(***************************************************************************)
(* C34: the buttons of the window are disabled from the moment a job is    *)
(* started until the terminal result of that job is delivered: in every    *)
(* state in which a started worker has had no result handled by the        *)
(* window, the window is busy.                                             *)
(***************************************************************************)
C34_BusyUntilResultDelivered ==
    (BackupUndelivered \/ RestoreUndelivered \/ WorkerUndelivered) => busy

====
